---- MODULE Spec2Model ----
(***************************************************************************)
(* Model of nunif/modules/attention.py: the windowed multi-head attention  *)
(* operators and the relative position bias table (WindowScoreBias).       *)
(*                                                                         *)
(* The state is one module instance under construction/use (module), the   *)
(* outcome of the last constructor or forward call (result) and which of   *)
(* the two use_flash_attention definitions the import at the top of the    *)
(* file selected (sdpa_kernel_import).                                     *)
(*                                                                         *)
(* stlizer/cache.py, the transform cache of the video stabilizer, is       *)
(* modelled next to it with state of its own (cache_dir, last_saved,       *)
(* cache_call) and a specification of its own, CacheSpec.                  *)
(*                                                                         *)
(* Python lists and tensors are 0-based; TLA+ sequences are 1-based.  A    *)
(* Python list l is the sequence s with s[i + 1] = l[i]; every VALUE that  *)
(* is an index (the entries of the index buffer) keeps its 0-based Python  *)
(* value.                                                                  *)
(***************************************************************************)
EXTENDS Integers, Sequences, FiniteSets, TLC

VARIABLES module, result, sdpa_kernel_import, cache_dir, last_saved, cache_call

vars == <<module, result, sdpa_kernel_import, cache_dir, last_saved, cache_call>>

(***************************************************************************)
(* Bounds of the model.                                                    *)
(***************************************************************************)
\* largest window extent (height or width) of a constructed module
MaxWindow == 3

\* a feature map holds at most MaxTiles windows (per batch element)
MaxTiles == 2

\* largest embed_dim / in_channels, and largest channel count of an input
MaxChannels == 2

\* largest num_heads
MaxHeads == 2

\* largest explicit qkv_dim
MaxQkvDim == 1

\* longest sequence passed to MHA.forward / CrossMHA.forward directly
MaxTokens == 2

\* tensors of more tokens than this are carried as shapes only
MaxPayload == 8

\* args.max_fps of a cache call is one of the first MaxFpsSteps multiples of 30
MaxFpsSteps == 2

----------------------------------------------------------------------------
(***************************************************************************)
(* Small helpers for Python arithmetic and lists.                          *)
(***************************************************************************)
Abs(a) == IF a < 0 THEN -a ELSE a

Max(a, b) == IF a >= b THEN a ELSE b

\* lexicographic order on (dy, dx) tuples, as Python compares tuples
TupleLess(a, b) == a[1] < b[1] \/ (a[1] = b[1] /\ a[2] < b[2])

\* the set of elements of a list: set(l)
ListSet(l) == {l[i] : i \in 1..Len(l)}

\* sorted(l) for a list of 2-tuples: ascending insertion, duplicates kept
RECURSIVE InsertSorted(_, _)
InsertSorted(s, d) ==
    IF s = <<>> THEN <<d>>
    ELSE IF TupleLess(d, Head(s)) THEN <<d>> \o s
    ELSE <<Head(s)>> \o InsertSorted(Tail(s), d)

RECURSIVE Sorted(_)
Sorted(l) == IF l = <<>> THEN <<>> ELSE InsertSorted(Sorted(Tail(l)), Head(l))

\* list(set) yields the elements in some order; sorted() makes the order
\* irrelevant, so any enumeration of the set may stand for it
RECURSIVE ListOfSet(_)
ListOfSet(S) ==
    IF S = {} THEN <<>>
    ELSE LET d == CHOOSE e \in S : TRUE IN <<d>> \o ListOfSet(S \ {d})

\* l.index(d): the 0-based position of the first occurrence of d in l
ListIndex(l, d) ==
    (CHOOSE i \in 1..Len(l) : l[i] = d /\ \A k \in 1..(i - 1) : l[k] # d) - 1

----------------------------------------------------------------------------
(***************************************************************************)
(* float32 values of the normalised delta buffer.  The unnormalised deltas *)
(* are small integers, so a quotient is kept exactly as numerator and      *)
(* denominator; a division by zero gives what IEEE-754 gives.              *)
(***************************************************************************)
FloatDiv(a, m) ==
    IF m # 0 THEN [kind |-> "num", num |-> a, den |-> m]
    ELSE IF a = 0 THEN [kind |-> "nan", num |-> 0, den |-> 0]
    ELSE [kind |-> "inf", num |-> a, den |-> 0]

\* a defined number in [-1, 1]
InUnitRange(f) == f.kind = "num" /\ f.den > 0 /\ -f.den <= f.num /\ f.num <= f.den

----------------------------------------------------------------------------
(***************************************************************************)
(* WindowScoreBias._gen_input                                              *)
(***************************************************************************)
\* positions: meshgrid(arange(h), arange(w), indexing="ij"), stacked on the
\* last axis and reshaped to (N, 2): row-major (row, col)
Positions(window_size) ==
    LET h == window_size[1]
        w == window_size[2]
    IN [p \in 1..(h * w) |-> <<(p - 1) \div w, (p - 1) % w>>]

\* mutant: the subtraction the other way round (positions - positions[i])
PairDeltaSwapped(positions) ==
    LET N == Len(positions)
    IN [e \in 1..(N * N) |->
          LET i == ((e - 1) \div N) + 1
              j == ((e - 1) % N) + 1
          IN <<positions[j][1] - positions[i][1], positions[j][2] - positions[i][2]>>]

\* mutant: the loop over i forgotten, every block is positions[0] - positions
PairDeltaFirstRow(positions) ==
    LET N == Len(positions)
    IN [e \in 1..(N * N) |->
          LET j == ((e - 1) % N) + 1
          IN <<positions[1][1] - positions[j][1], positions[1][2] - positions[j][2]>>]

\* delta: cat([positions[i] - positions for i in range(N)]), as tuples:
\* entry i * N + j is positions[i] - positions[j]
PairDelta(positions) ==
    LET N == Len(positions)
    IN [e \in 1..(N * N) |->
          LET i == ((e - 1) \div N) + 1
              j == ((e - 1) % N) + 1
          IN <<positions[i][1] - positions[j][1], positions[i][2] - positions[j][2]>>]

\* mutant: set() forgotten, the table keeps one row per pair
UniqueDeltaNoSet(delta) == Sorted(delta)

\* unique_delta = sorted(list(set(delta)))
UniqueDelta(delta) == Sorted(ListOfSet(ListSet(delta)))

\* index = [unique_delta.index(d) for d in delta]
DeltaIndex(unique_delta, delta) ==
    [e \in 1..Len(delta) |-> ListIndex(unique_delta, delta[e])]

\* unique_delta.abs().max()
RECURSIVE AbsMax(_)
AbsMax(unique_delta) ==
    IF unique_delta = <<>> THEN 0
    ELSE Max(Max(Abs(Head(unique_delta)[1]), Abs(Head(unique_delta)[2])),
             AbsMax(Tail(unique_delta)))

\* unique_delta / unique_delta.abs().max()
Normalize(unique_delta) ==
    LET m == AbsMax(unique_delta)
    IN [r \in 1..Len(unique_delta) |->
          <<FloatDiv(unique_delta[r][1], m), FloatDiv(unique_delta[r][2], m)>>]

\* the whole of _gen_input; unique keeps the table before the division
gen_input(window_size) ==
    LET positions == Positions(window_size)
        delta == PairDelta(positions)
        unique_delta == UniqueDelta(delta)
    IN [index |-> DeltaIndex(unique_delta, delta),
        unique |-> unique_delta,
        divisor |-> AbsMax(unique_delta),
        delta |-> Normalize(unique_delta)]

----------------------------------------------------------------------------
\* no module constructed yet; no call made yet
NoModule == [cls |-> "None"]

NoResult == [op |-> "None", status |-> "None"]

----------------------------------------------------------------------------
(***************************************************************************)
(* Tensors.  A tensor is its shape and, per token (one spatial position or *)
(* sequence element of one batch element), a payload standing for that     *)
(* token's channel vector.  Input payloads are integers (labels); the      *)
(* learned per-token maps (nn.Linear, 1x1 nn.Conv2d, a per-token           *)
(* normalisation) and the attention kernel are functions of exactly their  *)
(* arguments, written as tuples <<name, argument...>>, so that two         *)
(* payloads are equal exactly when they are computed the same way from the *)
(* same inputs.  A tensor of more than MaxPayload tokens is carried as a   *)
(* shape only (meta = TRUE), the way a tensor on torch's meta device is.   *)
(*   (B, N, C) tensors: tok[b][n];  (B, C, H, W) tensors: tok[b][y][x].    *)
(***************************************************************************)
NoTensor == [shape |-> <<>>, meta |-> TRUE, tok |-> <<>>]

Tensor(shape, meta, tok) ==
    [shape |-> shape, meta |-> meta, tok |-> IF meta THEN <<>> ELSE tok]

RECURSIVE Numel(_)
Numel(shape) == IF shape = <<>> THEN 1 ELSE Head(shape) * Numel(Tail(shape))

\* a learned or supplied per-token map, named by its layer, applied to a
\* (B, N, C) tensor, giving width channels
MapBNC(x, width, name) ==
    Tensor(<<x.shape[1], x.shape[2], width>>, x.meta,
           [b \in 1..x.shape[1] |-> [n \in 1..x.shape[2] |-> <<name, x.tok[b][n]>>]])

\* the same applied to a (B, C, H, W) tensor
MapBCHW(x, width, name) ==
    Tensor(<<x.shape[1], width, x.shape[3], x.shape[4]>>, x.meta,
           [b \in 1..x.shape[1] |-> [y \in 1..x.shape[3] |->
              [c \in 1..x.shape[4] |-> <<name, x.tok[b][y][c]>>]]])

\* x.split(width, dim=-1)[k] of a tensor whose last dimension is 3 * width
\* (or 2 * width): chunk k, 0-based
SplitBNC(x, width, k) ==
    Tensor(<<x.shape[1], x.shape[2], width>>, x.meta,
           [b \in 1..x.shape[1] |-> [n \in 1..x.shape[2] |->
              <<"chunk", k, x.tok[b][n]>>]])

\* the outcome of a call: how it ended, where it raised, the statements it
\* executed in order, the tensor it returned and the sliced_sdp calls made
Returned(out, steps, sdp) ==
    [status |-> "ok", at |-> "", steps |-> steps, out |-> out, sdp |-> sdp]

Raised(status, at, steps, sdp) ==
    [status |-> status, at |-> at, steps |-> steps, out |-> NoTensor, sdp |-> sdp]

----------------------------------------------------------------------------
(***************************************************************************)
(* use_flash_attention and sliced_sdp                                      *)
(***************************************************************************)
FlashMaxBatch == 65535

\* mutant: the legacy context manager called with enable_math=flag
use_flash_attention_math_off(flag) ==
    IF sdpa_kernel_import
    THEN IF flag THEN {"FLASH_ATTENTION", "EFFICIENT_ATTENTION", "MATH"}
         ELSE {"MATH"}
    ELSE (IF flag THEN {"FLASH_ATTENTION"} ELSE {})
         \cup (IF flag THEN {"MATH"} ELSE {})
         \cup (IF flag THEN {"EFFICIENT_ATTENTION"} ELSE {})

\* the set of backends the returned context manager enables.  With
\* torch.nn.attention importable: sdpa_kernel([...]); otherwise
\* torch.backends.cuda.sdp_kernel(enable_flash=flag, enable_math=True,
\* enable_mem_efficient=flag)
use_flash_attention(flag) ==
    IF sdpa_kernel_import
    THEN IF flag THEN {"FLASH_ATTENTION", "EFFICIENT_ATTENTION", "MATH"}
         ELSE {"MATH"}
    ELSE (IF flag THEN {"FLASH_ATTENTION"} ELSE {})
         \cup {"MATH"}
         \cup (IF flag THEN {"EFFICIENT_ATTENTION"} ELSE {})

\* F.scaled_dot_product_attention for one query of one head of one batch
\* element: softmax(q . K^T / sqrt(d)) . V over the tokens of K and V.  With
\* a single key the softmax weight is exp(s) / exp(s) = 1 and the result is
\* the value itself.
scaled_dot_product_attention(q, K, V) ==
    IF Len(K) = 1 THEN V[1] ELSE <<"sdpa", q, K, V>>

\* t.view(B, N, num_heads, qkv_dim).permute(0, 2, 1, 3)[b][h][n] for a
\* contiguous (B', N', C) tensor t with B' * N' = B * N and C = num_heads *
\* qkv_dim (every caller passes k and v with q's channel count): view keeps
\* the row-major order of the tokens, and head h is slice h of the channels
HeadSlice(t, b, n, N, h) ==
    LET e == (b - 1) * N + (n - 1)
    IN <<"head", h, t.tok[(e \div t.shape[2]) + 1][(e % t.shape[2]) + 1]>>

\* mutant: the batch folded into the sequence (view(1, B * N, ...)): every
\* token attends to the tokens of every batch element
sliced_sdp_folded(q, k, v, num_heads) ==
    LET B == q.shape[1]
        N == q.shape[2]
        C == q.shape[3]
        qkv_dim == C \div num_heads
        use_flash == B <= FlashMaxBatch
        call == [B |-> B, N |-> N, C |-> C, use_flash |-> use_flash,
                 backends |-> use_flash_attention(use_flash)]
        x == [b \in 1..B |-> [n \in 1..N |->
                <<"heads", [h \in 1..num_heads |->
                    scaled_dot_product_attention(
                        HeadSlice(q, b, n, N, h),
                        [e \in 1..(B * N) |-> HeadSlice(k, 1, e, B * N, h)],
                        [e \in 1..(B * N) |-> HeadSlice(v, 1, e, B * N, h)])]>>]]
    IN IF C % num_heads # 0
       THEN Raised("AssertionError", "assert C % num_heads == 0", <<>>, <<>>)
       ELSE IF Numel(k.shape) # B * N * num_heads * qkv_dim
               \/ Numel(v.shape) # B * N * num_heads * qkv_dim
       THEN Raised("RuntimeError", "view", <<>>, <<>>)
       ELSE Returned(Tensor(<<B, N, qkv_dim * num_heads>>, q.meta, x),
                     <<"scaled_dot_product_attention">>, <<call>>)

\* sliced_sdp(q, k, v, num_heads), attn_mask=None: the head-split assert,
\* the views (which need B * N * num_heads * qkv_dim elements), the backend
\* choice, the attention per batch element and head over the N tokens of
\* that batch element, and the heads merged back per token.  call records
\* what the call saw and chose.
sliced_sdp(q, k, v, num_heads) ==
    LET B == q.shape[1]
        N == q.shape[2]
        C == q.shape[3]
        qkv_dim == C \div num_heads
        use_flash == B <= FlashMaxBatch
        call == [B |-> B, N |-> N, C |-> C, use_flash |-> use_flash,
                 backends |-> use_flash_attention(use_flash)]
        x == [b \in 1..B |-> [n \in 1..N |->
                <<"heads", [h \in 1..num_heads |->
                    scaled_dot_product_attention(
                        HeadSlice(q, b, n, N, h),
                        [j \in 1..N |-> HeadSlice(k, b, j, N, h)],
                        [j \in 1..N |-> HeadSlice(v, b, j, N, h)])]>>]]
    IN IF C % num_heads # 0
       THEN Raised("AssertionError", "assert C % num_heads == 0", <<>>, <<>>)
       ELSE IF Numel(k.shape) # B * N * num_heads * qkv_dim
               \/ Numel(v.shape) # B * N * num_heads * qkv_dim
       THEN Raised("RuntimeError", "view", <<>>, <<>>)
       ELSE Returned(Tensor(<<B, N, qkv_dim * num_heads>>, q.meta, x),
                     <<"scaled_dot_product_attention">>, <<call>>)

----------------------------------------------------------------------------
(***************************************************************************)
(* MHA and CrossMHA.  The model is of a torch that has                     *)
(* F.scaled_dot_product_attention (torch >= 2.0, which the file requires), *)
(* so the capability assert of the constructors passes.                    *)
(* The argument qkv_dim is <<>> for None and <<d>> for the integer d.      *)
(***************************************************************************)
\* mutant: the divisibility assert dropped, qkv_dim floors
AttnInitNoAssert(cls, embed_dim, num_heads, qkv_dim) ==
    LET d == IF qkv_dim = <<>> THEN embed_dim \div num_heads ELSE qkv_dim[1]
    IN [status |-> "ok", at |-> "",
        obj |-> [cls |-> cls, embed_dim |-> embed_dim, num_heads |-> num_heads,
                 qkv_dim |-> d]]

\* MHA.__init__ and CrossMHA.__init__ (the same but for the projections,
\* whose widths are functions of embed_dim, num_heads and qkv_dim)
AttnInit(cls, embed_dim, num_heads, qkv_dim) ==
    IF qkv_dim = <<>> /\ embed_dim % num_heads # 0
    THEN [status |-> "AssertionError", at |-> "assert embed_dim % num_heads == 0",
          obj |-> NoModule]
    ELSE LET d == IF qkv_dim = <<>> THEN embed_dim \div num_heads ELSE qkv_dim[1]
         IN [status |-> "ok", at |-> "",
             obj |-> [cls |-> cls, embed_dim |-> embed_dim, num_heads |-> num_heads,
                      qkv_dim |-> d]]

\* nn.Linear(in_features, out_features) applied to a (B, N, C) tensor
Linear(name, x, out_features) == MapBNC(x, out_features, name)

\* MHA.forward(x), attn_mask=None
MHA_forward(m, x) ==
    LET width == m.qkv_dim * m.num_heads
        proj == Linear("qkv_proj", x, 3 * width)
        s == sliced_sdp(SplitBNC(proj, width, 0), SplitBNC(proj, width, 1),
                        SplitBNC(proj, width, 2), m.num_heads)
    IN IF x.shape[3] # m.embed_dim
       THEN Raised("RuntimeError", "qkv_proj", <<"qkv_proj">>, <<>>)
       ELSE IF s.status # "ok"
       THEN Raised(s.status, s.at, <<"qkv_proj", "sliced_sdp">>, s.sdp)
       ELSE Returned(Linear("head_proj", s.out, m.embed_dim),
                     <<"qkv_proj", "sliced_sdp", "head_proj">>, s.sdp)

\* mutant: the shape assert missing
CrossMHA_forward_unchecked(m, q, kv) ==
    LET width == m.qkv_dim * m.num_heads
        qp == Linear("q_proj", q, width)
        kvp == Linear("kv_proj", kv, 2 * width)
        s == sliced_sdp(qp, SplitBNC(kvp, width, 0), SplitBNC(kvp, width, 1),
                        m.num_heads)
    IN IF q.shape[3] # m.embed_dim
       THEN Raised("RuntimeError", "q_proj", <<"q_proj">>, <<>>)
       ELSE IF kv.shape[3] # m.embed_dim
       THEN Raised("RuntimeError", "kv_proj", <<"q_proj", "kv_proj">>, <<>>)
       ELSE IF s.status # "ok"
       THEN Raised(s.status, s.at, <<"q_proj", "kv_proj", "sliced_sdp">>, s.sdp)
       ELSE Returned(Linear("head_proj", s.out, m.embed_dim),
                     <<"q_proj", "kv_proj", "sliced_sdp", "head_proj">>, s.sdp)

\* CrossMHA.forward(q, kv), attn_mask=None
CrossMHA_forward(m, q, kv) ==
    LET width == m.qkv_dim * m.num_heads
        qp == Linear("q_proj", q, width)
        kvp == Linear("kv_proj", kv, 2 * width)
        s == sliced_sdp(qp, SplitBNC(kvp, width, 0), SplitBNC(kvp, width, 1),
                        m.num_heads)
        pre == <<"assert q.shape == kv.shape">>
    IN IF q.shape # kv.shape
       THEN Raised("AssertionError", "assert q.shape == kv.shape", pre, <<>>)
       ELSE IF q.shape[3] # m.embed_dim
       THEN Raised("RuntimeError", "q_proj", pre \o <<"q_proj">>, <<>>)
       ELSE IF s.status # "ok"
       THEN Raised(s.status, s.at, pre \o <<"q_proj", "kv_proj", "sliced_sdp">>, s.sdp)
       ELSE Returned(Linear("head_proj", s.out, m.embed_dim),
                     pre \o <<"q_proj", "kv_proj", "sliced_sdp", "head_proj">>, s.sdp)

----------------------------------------------------------------------------
(***************************************************************************)
(* The layout adapter (nunif/modules/permute.py): window partition of a    *)
(* (B, C, H, W) map into (B * H/SH * W/SW, SH * SW, C) and its inverse.    *)
(* Window (i, j) of batch element b is batch row (b * H2 + i) * W2 + j;    *)
(* position (sh, sw) of the window is token sh * SW + sw.                  *)
(***************************************************************************)
\* the adapter's precondition: the extents divide the map
Divides(shape, window_size) ==
    shape[3] % window_size[1] = 0 /\ shape[4] % window_size[2] = 0

bchw_to_bnc(x, window_size) ==
    LET B == x.shape[1]
        SH == window_size[1]
        SW == window_size[2]
        H2 == x.shape[3] \div SH
        W2 == x.shape[4] \div SW
    IN Tensor(<<B * H2 * W2, SH * SW, x.shape[2]>>, x.meta,
              [bw \in 1..(B * H2 * W2) |-> [n \in 1..(SH * SW) |->
                 x.tok[((bw - 1) \div (H2 * W2)) + 1]
                      [(((bw - 1) % (H2 * W2)) \div W2) * SH + ((n - 1) \div SW) + 1]
                      [((bw - 1) % W2) * SW + ((n - 1) % SW) + 1]]])

bnc_to_bchw(x, out_shape, window_size) ==
    LET SH == window_size[1]
        SW == window_size[2]
        H2 == out_shape[3] \div SH
        W2 == out_shape[4] \div SW
    IN Tensor(out_shape, x.meta,
              [b \in 1..out_shape[1] |-> [y \in 1..out_shape[3] |->
                 [c \in 1..out_shape[4] |->
                    x.tok[((b - 1) * H2 + ((y - 1) \div SH)) * W2 + ((c - 1) \div SW) + 1]
                         [((y - 1) % SH) * SW + ((c - 1) % SW) + 1]]]])

\* a normalisation callable that acts on each token's channel vector,
\* applied to a (B, N, C) sequence
layer_norm(x) == MapBNC(x, x.shape[3], "layer_norm")

----------------------------------------------------------------------------
(***************************************************************************)
(* WindowMHA2d, WindowCrossMHA2d, OverlapWindowMHA2d                       *)
(* The argument window_size is <<s>> for the integer s, <<h, w>> for a     *)
(* tuple or list.                                                          *)
(***************************************************************************)
\* window_size if isinstance(window_size, (tuple, list)) else (s, s)
WindowSize(arg) == IF Len(arg) = 1 THEN <<arg[1], arg[1]>> ELSE arg

\* WindowMHA2d.__init__ and WindowCrossMHA2d.__init__ (inner is "MHA" or
\* "CrossMHA")
WindowInit(cls, inner, in_channels, num_heads, window_size, qkv_dim) ==
    LET mha == AttnInit(inner, in_channels, num_heads, qkv_dim)
    IN IF mha.status # "ok"
       THEN mha
       ELSE [status |-> "ok", at |-> "",
             obj |-> [cls |-> cls, window_size |-> WindowSize(window_size),
                      num_heads |-> num_heads, mha |-> mha.obj]]

\* OverlapWindowMHA2d.__init__
OverlapInit(in_channels, num_heads, window_size, qkv_dim) ==
    LET ws == WindowSize(window_size)
    IN IF qkv_dim = <<>> /\ in_channels % num_heads # 0
       THEN [status |-> "AssertionError", at |-> "assert in_channels % num_heads == 0",
             obj |-> NoModule]
       ELSE [status |-> "ok", at |-> "",
             obj |-> [cls |-> "OverlapWindowMHA2d", window_size |-> ws,
                      pad_h |-> ws[1] \div 2, pad_w |-> ws[2] \div 2,
                      num_heads |-> num_heads, in_channels |-> in_channels,
                      qkv_dim |-> IF qkv_dim = <<>> THEN in_channels \div num_heads
                                  ELSE qkv_dim[1]]]

\* WindowMHA2d.forward(x, attn_mask=None, layer_norm); ln says whether a
\* normalisation callable is passed
WindowMHA2d_forward(m, x, ln) ==
    LET out_shape == x.shape
        w == bchw_to_bnc(x, m.window_size)
        n == IF ln THEN layer_norm(w) ELSE w
        r == MHA_forward(m.mha, n)
        pre == <<"bchw_to_bnc">> \o (IF ln THEN <<"layer_norm">> ELSE <<>>)
    IN IF ~Divides(x.shape, m.window_size)
       THEN Raised("AssertionError", "bchw_to_bnc", <<"bchw_to_bnc">>, <<>>)
       ELSE IF r.status # "ok"
       THEN Raised(r.status, r.at, pre \o r.steps, r.sdp)
       ELSE IF Numel(r.out.shape) # Numel(out_shape)
       THEN Raised("RuntimeError", "bnc_to_bchw", pre \o r.steps, r.sdp)
       ELSE Returned(bnc_to_bchw(r.out, out_shape, m.window_size),
                     pre \o r.steps \o <<"bnc_to_bchw">>, r.sdp)

\* WindowCrossMHA2d.forward(x1, x2, attn_mask=None, layer_norm1, layer_norm2)
WindowCrossMHA2d_forward(m, x1, x2, ln1, ln2) ==
    LET out_shape == x1.shape
        w1 == bchw_to_bnc(x1, m.window_size)
        w2 == bchw_to_bnc(x2, m.window_size)
        n1 == IF ln1 THEN layer_norm(w1) ELSE w1
        n2 == IF ln2 THEN layer_norm(w2) ELSE w2
        r == CrossMHA_forward(m.mha, n1, n2)
        pre == <<"bchw_to_bnc", "bchw_to_bnc">>
                  \o (IF ln1 THEN <<"layer_norm">> ELSE <<>>)
                  \o (IF ln2 THEN <<"layer_norm">> ELSE <<>>)
    IN IF ~Divides(x1.shape, m.window_size)
       THEN Raised("AssertionError", "bchw_to_bnc", <<"bchw_to_bnc">>, <<>>)
       ELSE IF ~Divides(x2.shape, m.window_size)
       THEN Raised("AssertionError", "bchw_to_bnc", <<"bchw_to_bnc", "bchw_to_bnc">>,
                   <<>>)
       ELSE IF r.status # "ok"
       THEN Raised(r.status, r.at, pre \o r.steps, r.sdp)
       ELSE IF Numel(r.out.shape) # Numel(out_shape)
       THEN Raised("RuntimeError", "bnc_to_bchw", pre \o r.steps, r.sdp)
       ELSE Returned(bnc_to_bchw(r.out, out_shape, m.window_size),
                     pre \o r.steps \o <<"bnc_to_bchw">>, r.sdp)

\* F.pad(x, [pw, pw, ph, ph], mode="constant", value=0) on a (B, C, H, W)
\* map; negative amounts crop
Pad(x, pw, ph) ==
    LET H == x.shape[3]
        W == x.shape[4]
    IN Tensor(<<x.shape[1], x.shape[2], H + 2 * ph, W + 2 * pw>>, x.meta,
              [b \in 1..x.shape[1] |-> [y \in 1..(H + 2 * ph) |->
                 [c \in 1..(W + 2 * pw) |->
                    IF y - ph \in 1..H /\ c - pw \in 1..W
                    THEN x.tok[b][y - ph][c - pw]
                    ELSE <<"zeros", 0>>]]])

\* x1 + x2 of two maps of the same shape
Add(x1, x2) ==
    Tensor(x1.shape, x1.meta,
           [b \in 1..x1.shape[1] |-> [y \in 1..x1.shape[3] |->
              [c \in 1..x1.shape[4] |-> <<"add", x1.tok[b][y][c], x2.tok[b][y][c]>>]]])

\* mutant: the chunks unpacked in the wrong order (v, k, q = x.split(...))
forward_mha_swapped(m, x) ==
    LET width == m.qkv_dim * m.num_heads
    IN sliced_sdp(SplitBNC(x, width, 2), SplitBNC(x, width, 1),
                  SplitBNC(x, width, 0), m.num_heads)

\* OverlapWindowMHA2d.forward_mha(x, attn_mask=None)
forward_mha(m, x) ==
    LET width == m.qkv_dim * m.num_heads
    IN sliced_sdp(SplitBNC(x, width, 0), SplitBNC(x, width, 1),
                  SplitBNC(x, width, 2), m.num_heads)

\* OverlapWindowMHA2d.forward(x, attn_mask=None, layer_norm)
OverlapWindowMHA2d_forward(m, x, ln) ==
    LET width == m.qkv_dim * m.num_heads
        n == IF ln THEN MapBCHW(x, x.shape[2], "layer_norm") ELSE x
        p == MapBCHW(n, 3 * width, "qkv_proj")
        x1 == p
        x2 == Pad(p, m.pad_w, m.pad_h)
        out_shape1 == x1.shape
        out_shape2 == x2.shape
        r1 == forward_mha(m, bchw_to_bnc(x1, m.window_size))
        r2 == forward_mha(m, bchw_to_bnc(x2, m.window_size))
        y1 == bnc_to_bchw(r1.out, <<out_shape1[1], r1.out.shape[3],
                                    out_shape1[3], out_shape1[4]>>, m.window_size)
        y2 == bnc_to_bchw(r2.out, <<out_shape2[1], r2.out.shape[3],
                                    out_shape2[3], out_shape2[4]>>, m.window_size)
        c2 == Pad(y2, -m.pad_w, -m.pad_h)
        norm == IF ln THEN <<"layer_norm">> ELSE <<>>
        pre == norm \o <<"qkv_proj", "pad">>
    IN IF x.shape[2] # m.in_channels
       THEN Raised("RuntimeError", "qkv_proj", norm \o <<"qkv_proj">>, <<>>)
       ELSE IF ~Divides(x1.shape, m.window_size)
       THEN Raised("AssertionError", "bchw_to_bnc(x1)", pre \o <<"bchw_to_bnc">>, <<>>)
       ELSE IF ~Divides(x2.shape, m.window_size)
       THEN Raised("AssertionError", "bchw_to_bnc(x2)",
                   pre \o <<"bchw_to_bnc", "bchw_to_bnc">>, <<>>)
       ELSE IF r1.status # "ok"
       THEN Raised(r1.status, r1.at,
                   pre \o <<"bchw_to_bnc", "bchw_to_bnc", "forward_mha">>, r1.sdp)
       ELSE IF r2.status # "ok"
       THEN Raised(r2.status, r2.at,
                   pre \o <<"bchw_to_bnc", "bchw_to_bnc", "forward_mha", "forward_mha">>,
                   r1.sdp \o r2.sdp)
       ELSE Returned(MapBCHW(Add(y1, c2), m.in_channels, "head_proj"),
                     pre \o <<"bchw_to_bnc", "bchw_to_bnc", "forward_mha", "forward_mha",
                              "bnc_to_bchw", "bnc_to_bchw", "crop", "head_proj">>,
                     r1.sdp \o r2.sdp)

----------------------------------------------------------------------------
(***************************************************************************)
(* Inputs.  Every token of an input carries its own label, base + its      *)
(* row-major position, except the token at position pert (if pert is a     *)
(* position), which carries 0.  The calls are made on the inputs with      *)
(* pert = 0; the inputs with pert # 0 are the inputs that differ from them *)
(* at exactly one position.                                                *)
(***************************************************************************)
BatchSizes == {1, 2, FlashMaxBatch, FlashMaxBatch + 1}

\* the feature maps' batch sizes; with two windows or more the windowed batch
\* of the largest is above FlashMaxBatch
MapBatchSizes == {1, 2, FlashMaxBatch}

\* the numbers of windows (down, across) of a feature map
Tiles == {t \in (1..MaxTiles) \X (1..MaxTiles) : t[1] * t[2] <= MaxTiles}

WindowArgs == {<<s>> : s \in 1..MaxWindow} \cup ((1..MaxWindow) \X (1..MaxWindow))

QkvDimArgs == {<<>>} \cup {<<d>> : d \in 1..MaxQkvDim}

Tracked(tokens) == tokens <= MaxPayload

Label(base, pos, pert) == IF pos = pert THEN 0 ELSE base + pos

InputBNC(shape, base, pert) ==
    Tensor(shape, ~Tracked(shape[1] * shape[2]),
           [b \in 1..shape[1] |-> [n \in 1..shape[2] |->
              Label(base, (b - 1) * shape[2] + n, pert)]])

InputBCHW(shape, base, pert) ==
    Tensor(shape, ~Tracked(shape[1] * shape[3] * shape[4]),
           [b \in 1..shape[1] |-> [y \in 1..shape[3] |-> [c \in 1..shape[4] |->
              Label(base, ((b - 1) * shape[3] + (y - 1)) * shape[4] + c, pert)]]])

----------------------------------------------------------------------------
(***************************************************************************)
(* Actions: one per constructor and per forward call.  A run constructs    *)
(* one module (a constructor that raises constructs none, and another may  *)
(* be tried) and makes one forward call on it: no forward call changes the *)
(* module or anything else a later call reads, so the outcome of a call is *)
(* the same whatever calls came before it.                                 *)
(***************************************************************************)
Fresh == result.op \notin {"MHA.forward", "CrossMHA.forward", "WindowMHA2d.forward",
                           "WindowCrossMHA2d.forward", "OverlapWindowMHA2d.forward",
                           "WindowScoreBias.forward"}

Constructed(op, c, args) ==
    /\ module = NoModule
    /\ module' = IF c.status = "ok" THEN c.obj ELSE module
    /\ result' = [op |-> op, status |-> c.status, at |-> c.at, args |-> args]
    /\ UNCHANGED sdpa_kernel_import

Called(op, r, inputs, ln) ==
    /\ result' = [op |-> op, status |-> r.status, at |-> r.at, steps |-> r.steps,
                  out |-> r.out, sdp |-> r.sdp, inputs |-> inputs, ln |-> ln]
    /\ UNCHANGED <<module, sdpa_kernel_import>>

\* WindowScoreBias.__init__(window_size): the buffers are registered once
NewWindowScoreBias(window_size) ==
    LET ws == WindowSize(window_size)
        g == gen_input(ws)
    IN /\ module = NoModule
       /\ module' = [cls |-> "WindowScoreBias", window_size |-> ws,
                     index |-> g.index, delta |-> g.delta,
                     unique |-> g.unique, divisor |-> g.divisor]
       /\ result' = [op |-> "WindowScoreBias.__init__", status |-> "ok", at |-> "",
                     args |-> <<window_size>>]
       /\ UNCHANGED sdpa_kernel_import

\* WindowScoreBias.forward(): the bias MLP on every row of delta, gathered
\* through index and reshaped to (N, N)
WindowScoreBiasForward ==
    /\ module.cls = "WindowScoreBias"
    /\ Fresh
    /\ LET N == module.window_size[1] * module.window_size[2]
           bias == [r \in 1..Len(module.delta) |-> <<"to_bias", module.delta[r]>>]
       IN result' = [op |-> "WindowScoreBias.forward", status |-> "ok", at |-> "",
                     bias |-> [i \in 1..N |-> [j \in 1..N |->
                                 bias[module.index[(i - 1) * N + j] + 1]]]]
    /\ UNCHANGED <<module, sdpa_kernel_import>>

NewMHA(embed_dim, num_heads, qkv_dim) ==
    Constructed("MHA.__init__", AttnInit("MHA", embed_dim, num_heads, qkv_dim),
                <<embed_dim, num_heads, qkv_dim>>)

NewCrossMHA(embed_dim, num_heads, qkv_dim) ==
    Constructed("CrossMHA.__init__", AttnInit("CrossMHA", embed_dim, num_heads, qkv_dim),
                <<embed_dim, num_heads, qkv_dim>>)

NewWindowMHA2d(in_channels, num_heads, window_size, qkv_dim) ==
    Constructed("WindowMHA2d.__init__",
                WindowInit("WindowMHA2d", "MHA", in_channels, num_heads,
                           window_size, qkv_dim),
                <<in_channels, num_heads, qkv_dim>>)

NewWindowCrossMHA2d(in_channels, num_heads, window_size, qkv_dim) ==
    Constructed("WindowCrossMHA2d.__init__",
                WindowInit("WindowCrossMHA2d", "CrossMHA", in_channels, num_heads,
                           window_size, qkv_dim),
                <<in_channels, num_heads, qkv_dim>>)

NewOverlapWindowMHA2d(in_channels, num_heads, window_size, qkv_dim) ==
    Constructed("OverlapWindowMHA2d.__init__",
                OverlapInit(in_channels, num_heads, window_size, qkv_dim),
                <<in_channels, num_heads, qkv_dim>>)

\* mha(x) on a (B, N, C) input
CallMHA(B, N, C) ==
    /\ module.cls = "MHA"
    /\ Fresh
    /\ LET x == InputBNC(<<B, N, C>>, 0, 0)
       IN Called("MHA.forward", MHA_forward(module, x), <<x>>, <<>>)

\* the second stream's labels follow the first stream's
CrossInputs(qshape, kvshape, pert) ==
    LET P == qshape[1] * qshape[2]
    IN <<InputBNC(qshape, 0, pert), InputBNC(kvshape, P, pert - P)>>

\* mha(q, kv) on two (B, N, C) inputs of any two shapes
CallCrossMHA(qshape, kvshape) ==
    /\ module.cls = "CrossMHA"
    /\ Fresh
    /\ LET in == CrossInputs(qshape, kvshape, 0)
       IN Called("CrossMHA.forward", CrossMHA_forward(module, in[1], in[2]), in, <<>>)

\* the shape of a valid input of a window module: th by tw windows
MapShape(B, C, window_size, th, tw) ==
    <<B, C, th * window_size[1], tw * window_size[2]>>

CallWindowMHA2d(B, th, tw, ln) ==
    /\ module.cls = "WindowMHA2d"
    /\ Fresh
    /\ LET x == InputBCHW(MapShape(B, module.mha.embed_dim, module.window_size, th, tw),
                          0, 0)
       IN Called("WindowMHA2d.forward", WindowMHA2d_forward(module, x, ln),
                 <<x>>, <<ln>>)

\* two maps of one shape; pert counts through the positions of x1, then
\* through those of x2
CrossMaps(shape, pert) ==
    LET P == shape[1] * shape[3] * shape[4]
    IN <<InputBCHW(shape, 0, pert), InputBCHW(shape, P, pert - P)>>

CallWindowCrossMHA2d(B, th, tw, ln1, ln2) ==
    /\ module.cls = "WindowCrossMHA2d"
    /\ Fresh
    /\ LET in == CrossMaps(MapShape(B, module.mha.embed_dim, module.window_size, th, tw), 0)
       IN Called("WindowCrossMHA2d.forward",
                 WindowCrossMHA2d_forward(module, in[1], in[2], ln1, ln2),
                 in, <<ln1, ln2>>)

CallOverlapWindowMHA2d(B, th, tw, ln) ==
    /\ module.cls = "OverlapWindowMHA2d"
    /\ Fresh
    /\ LET x == InputBCHW(MapShape(B, module.in_channels, module.window_size, th, tw),
                          0, 0)
       IN Called("OverlapWindowMHA2d.forward",
                 OverlapWindowMHA2d_forward(module, x, ln), <<x>>, <<ln>>)

----------------------------------------------------------------------------
(***************************************************************************)
(* stlizer/cache.py: the transform cache of the video stabilizer.          *)
(*                                                                         *)
(* cache_dir is the content of the user cache directory: for every cache   *)
(* path the dict torch.save wrote there, or NoFile.  cache_call is the     *)
(* last cache call with its return value.  last_saved is a history         *)
(* variable: for every video path the arguments of the last save_cache     *)
(* that no purge_cache followed, or NoSave.                                *)
(*                                                                         *)
(* A Python str that md5 may see is the record [none, text, salts]: text   *)
(* is the text the hashing started from and salts lists the salt appended  *)
(* before each application of the digest, so <<>> is the text itself and   *)
(* <<MD5_SALT>> is hexdigest(text + MD5_SALT).  Different records are      *)
(* different strings: the digest is taken to be free of collisions and of  *)
(* fixed points.  None is the record with none = TRUE.                     *)
(***************************************************************************)
\* cache.py:9 (the float 1.0)
CACHE_VERSION == 1

MD5_SALT == "stlizer"

None == [none |-> TRUE, text |-> "", salts |-> <<>>]

Str(text) == [none |-> FALSE, text |-> text, salts |-> <<>>]

\* `if s:` is false for None and for the empty string
Truthy(s) == ~s.none /\ ~(s.text = "" /\ s.salts = <<>>)

md5(s) ==
    IF Truthy(s)
    THEN [none |-> FALSE, text |-> s.text, salts |-> Append(s.salts, MD5_SALT)]
    ELSE Str("")

\* the video paths are absolute, path.abspath leaves them alone
get_cache_path(input_video_path) ==
    [dir |-> "user_cache_dir", name |-> md5(Str(input_video_path)),
     ext |-> ".stlizer"]

(***************************************************************************)
(* fps: a fractions.Fraction is written as the text "numerator/denominator"*)
(* and parsed back on load; any other number is written as a float.  A     *)
(* text is a sequence of one-character strings.                            *)
(***************************************************************************)
RECURSIVE Gcd(_, _)
Gcd(a, b) == IF b = 0 THEN a ELSE Gcd(b, a % b)

\* fractions.Fraction(numerator, denominator): lowest terms, positive denominator
Fraction(numerator, denominator) ==
    LET g == Gcd(Abs(numerator), Abs(denominator))
        s == IF denominator < 0 THEN -1 ELSE 1
    IN [kind |-> "Fraction", numerator |-> s * (numerator \div g),
        denominator |-> s * (denominator \div g)]

DigitChars == <<"0", "1", "2", "3", "4", "5", "6", "7", "8", "9">>

RECURSIVE Digits(_)
Digits(n) == IF n < 10 THEN <<DigitChars[n + 1]>>
             ELSE Digits(n \div 10) \o <<DigitChars[(n % 10) + 1]>>

\* format of an int inside an f-string
IntToText(n) == IF n < 0 THEN <<"-">> \o Digits(-n) ELSE Digits(n)

DigitValue(c) == CHOOSE d \in 0..9 : DigitChars[d + 1] = c

RECURSIVE DigitsValue(_)
DigitsValue(cs) ==
    IF cs = <<>> THEN 0
    ELSE 10 * DigitsValue(SubSeq(cs, 1, Len(cs) - 1)) + DigitValue(cs[Len(cs)])

\* int(text)
TextToInt(cs) == IF cs[1] = "-" THEN -DigitsValue(Tail(cs)) ELSE DigitsValue(cs)

\* text.split("/") of a text holding exactly one "/"
SplitSlash(cs) ==
    LET at == CHOOSE i \in 1..Len(cs) : cs[i] = "/"
    IN <<SubSeq(cs, 1, at - 1), SubSeq(cs, at + 1, Len(cs))>>

\* cache.py:32-35
FpsToFile(fps) ==
    IF fps.kind = "Fraction"
    THEN [kind |-> "str",
          text |-> IntToText(fps.numerator) \o <<"/">> \o IntToText(fps.denominator)]
    ELSE [kind |-> "float", value |-> fps.value]

\* cache.py:60-64
FpsFromFile(fps) ==
    IF fps.kind = "str"
    THEN LET parts == SplitSlash(fps.text)
         IN Fraction(TextToInt(parts[1]), TextToInt(parts[2]))
    ELSE fps

NoFile == [exists |-> FALSE]

NoSave == [saved |-> FALSE]

NoCall == [op |-> "None"]

\* python None as a return value
NoData == [data |-> FALSE]

\* the dict save_cache hands to torch.save
CacheRecord(transforms, mean_match_scores, fps, args) ==
    [transforms |-> transforms,
     mean_match_scores |-> mean_match_scores,
     max_fps |-> args.max_fps,
     fps |-> FpsToFile(fps),
     vf |-> md5(args.vf),
     resolution |-> args.resolution,
     version |-> CACHE_VERSION]

\* cache.py:49-68: the return value of try_load_cache, `file` being what
\* torch.load reads at the cache path (NoFile if path.exists is false)
LoadedData(file, args) ==
    IF file = NoFile THEN NoData
    ELSE IF "version" \notin DOMAIN file THEN NoData
    ELSE IF args.max_fps # file.max_fps THEN NoData
    ELSE IF args.resolution # file.resolution THEN NoData
    ELSE LET vf == md5(IF "vf" \in DOMAIN file THEN file.vf ELSE None)
         IN IF md5(args.vf) # vf THEN NoData
            ELSE [file EXCEPT !.fps = FpsFromFile(file.fps)]

(***************************************************************************)
(* Inputs of the cache calls.                                              *)
(***************************************************************************)
\* absolute paths of input videos
VideoPaths == {"/videos/a.mp4", "/videos/b.mp4"}

CachePaths == {get_cache_path(p) : p \in VideoPaths}

\* args.vf, a str: no filter (the empty string) or an ffmpeg filter string
VfArgs == {Str(""), Str("hflip"), Str("vflip")}

\* args.max_fps
MaxFpsArgs == {30 * k : k \in 1..MaxFpsSteps}

\* args.resolution: <<>> is None
ResolutionArgs == {<<>>, <<720>>}

CacheArgs == [max_fps : MaxFpsArgs, resolution : ResolutionArgs, vf : VfArgs]

\* the result of an analysis pass: transforms, mean_match_scores and the fps
\* of the video, a Fraction (NTSC) or a plain number
Analyses ==
    {[transforms |-> <<"transforms", 1>>, mean_match_scores |-> <<"scores", 1>>,
      fps |-> Fraction(30000, 1001)],
     [transforms |-> <<"transforms", 2>>, mean_match_scores |-> <<"scores", 2>>,
      fps |-> [kind |-> "int", value |-> 25]]}

attention_vars == <<module, result, sdpa_kernel_import>>

cache_vars == <<cache_dir, last_saved, cache_call>>

NoFiles == [c \in CachePaths |-> NoFile]

NoSaves == [p \in VideoPaths |-> NoSave]

(***************************************************************************)
(* The cache calls.                                                        *)
(***************************************************************************)
save_cache(input_video_path, transforms, mean_match_scores, fps, args) ==
    LET cache_path == get_cache_path(input_video_path)
    IN /\ cache_dir' = [cache_dir EXCEPT ![cache_path] =
                            CacheRecord(transforms, mean_match_scores, fps, args)]
       /\ last_saved' = [last_saved EXCEPT ![input_video_path] =
                            [saved |-> TRUE, transforms |-> transforms,
                             mean_match_scores |-> mean_match_scores,
                             fps |-> fps, args |-> args]]
       /\ cache_call' = [op |-> "save_cache", path |-> input_video_path]
       /\ UNCHANGED attention_vars

try_load_cache(input_video_path, args) ==
    LET cache_path == get_cache_path(input_video_path)
    IN /\ cache_call' = [op |-> "try_load_cache", path |-> input_video_path,
                         args |-> args,
                         out |-> LoadedData(cache_dir[cache_path], args)]
       /\ UNCHANGED <<cache_dir, last_saved>>
       /\ UNCHANGED attention_vars

purge_cache(input_video_path) ==
    LET cache_path == get_cache_path(input_video_path)
    IN /\ cache_dir' = [cache_dir EXCEPT ![cache_path] = NoFile]
       /\ last_saved' = [last_saved EXCEPT ![input_video_path] = NoSave]
       /\ cache_call' = [op |-> "purge_cache", path |-> input_video_path]
       /\ UNCHANGED attention_vars

Init ==
    /\ module = NoModule
    /\ result = NoResult
    /\ sdpa_kernel_import \in BOOLEAN
    /\ cache_dir = NoFiles
    /\ last_saved = NoSaves
    /\ cache_call = NoCall

SeqShapes == BatchSizes \X (1..MaxTokens) \X (1..MaxChannels)

\* a constructor call, while no module is constructed
Construct ==
    /\ module = NoModule
    /\ \/ \E ws \in WindowArgs : NewWindowScoreBias(ws)
       \/ \E e \in 1..MaxChannels, h \in 1..MaxHeads, d \in QkvDimArgs : NewMHA(e, h, d)
       \/ \E e \in 1..MaxChannels, h \in 1..MaxHeads, d \in QkvDimArgs :
             NewCrossMHA(e, h, d)
       \/ \E e \in 1..MaxChannels, h \in 1..MaxHeads, ws \in WindowArgs,
             d \in QkvDimArgs : NewWindowMHA2d(e, h, ws, d)
       \/ \E e \in 1..MaxChannels, h \in 1..MaxHeads, ws \in WindowArgs,
             d \in QkvDimArgs : NewWindowCrossMHA2d(e, h, ws, d)
       \/ \E e \in 1..MaxChannels, h \in 1..MaxHeads, ws \in WindowArgs,
             d \in QkvDimArgs : NewOverlapWindowMHA2d(e, h, ws, d)
    /\ UNCHANGED cache_vars

\* the forward call on the constructed module
Forward ==
    /\ module # NoModule
    /\ Fresh
    /\ \/ WindowScoreBiasForward
       \/ /\ module.cls = "MHA"
          /\ \E s \in SeqShapes : CallMHA(s[1], s[2], s[3])
       \/ /\ module.cls = "CrossMHA"
          /\ \E qs \in SeqShapes, ks \in SeqShapes :
                /\ Cardinality({d \in 1..3 : qs[d] # ks[d]}) <= 1
                /\ CallCrossMHA(qs, ks)
       \/ /\ module.cls = "WindowMHA2d"
          /\ \E B \in MapBatchSizes, t \in Tiles, ln \in BOOLEAN :
                CallWindowMHA2d(B, t[1], t[2], ln)
       \/ /\ module.cls = "WindowCrossMHA2d"
          /\ \E B \in MapBatchSizes, t \in Tiles, ln1 \in BOOLEAN, ln2 \in BOOLEAN :
                CallWindowCrossMHA2d(B, t[1], t[2], ln1, ln2)
       \/ /\ module.cls = "OverlapWindowMHA2d"
          /\ \E B \in MapBatchSizes, t \in Tiles, ln \in BOOLEAN :
                CallOverlapWindowMHA2d(B, t[1], t[2], ln)
    /\ UNCHANGED cache_vars

Next == Construct \/ Forward

Spec == Init /\ [][Next]_vars

(***************************************************************************)
(* The cache on its own: any sequence of save, load and purge calls on the *)
(* video paths, from an empty cache directory.                             *)
(***************************************************************************)
SaveCache ==
    \E p \in VideoPaths, a \in Analyses, args \in CacheArgs :
       save_cache(p, a.transforms, a.mean_match_scores, a.fps, args)

TryLoadCache == \E p \in VideoPaths, args \in CacheArgs : try_load_cache(p, args)

PurgeCache == \E p \in VideoPaths : purge_cache(p)

CacheNext == SaveCache \/ TryLoadCache \/ PurgeCache

\* attention.py is not in use while the cache is exercised
CacheInit == Init /\ sdpa_kernel_import

CacheSpec == CacheInit /\ [][CacheNext]_vars

----------------------------------------------------------------------------
(***************************************************************************)
(* Properties of WindowScoreBias._gen_input                                *)
(***************************************************************************)
IsBias == module.cls = "WindowScoreBias"

BiasH == module.window_size[1]

BiasW == module.window_size[2]

\* C1: for every window geometry (h, w) the unique-delta table has at most
\* (2h-1)(2w-1) rows, the index array has exactly (h*w)^2 entries, and every
\* entry is a valid index into the table (0 <= index < number of rows).
C1_TableAndIndexSizes ==
    IsBias =>
        /\ Len(module.delta) = Len(module.unique)
        /\ Len(module.delta) <= (2 * BiasH - 1) * (2 * BiasW - 1)
        /\ Len(module.index) = (BiasH * BiasW) * (BiasH * BiasW)
        /\ \A e \in 1..Len(module.index) :
              0 <= module.index[e] /\ module.index[e] < Len(module.delta)

C1_Witness ==
    IsBias /\ BiasH >= 2 /\ BiasW >= 2 /\ BiasH # BiasW /\ Len(module.index) >= 36

\* C2: after construction every component of every row of the normalised
\* delta buffer is a defined number in [-1, 1], and the divisor (the maximum
\* absolute component of the unnormalised deltas) is not zero.
C2_NormalizedInUnitRange ==
    IsBias =>
        /\ module.divisor # 0
        /\ \A r \in 1..Len(module.delta) :
              InUnitRange(module.delta[r][1]) /\ InUnitRange(module.delta[r][2])

\* C9: with positions enumerated row-major, entry i*N + j of the index array
\* is the position in the unique-delta table of position[i] - position[j];
\* the table is in strictly ascending lexicographic order (so it has no
\* duplicate rows), and two pairs share an index exactly when their deltas
\* are equal.
C9_IndexLocatesDelta ==
    IsBias =>
        LET N == BiasH * BiasW
            Row(i) == i \div BiasW
            Col(i) == i % BiasW
            D(i, j) == <<Row(i) - Row(j), Col(i) - Col(j)>>
        IN /\ \A i \in 0..(N - 1), j \in 0..(N - 1) :
                 module.unique[module.index[i * N + j + 1] + 1] = D(i, j)
           /\ \A r \in 1..(Len(module.unique) - 1) :
                 TupleLess(module.unique[r], module.unique[r + 1])
           /\ \A r \in 1..Len(module.unique), t \in 1..Len(module.unique) :
                 module.unique[r] = module.unique[t] => r = t
           /\ \A i \in 0..(N - 1), j \in 0..(N - 1), k \in 0..(N - 1), l \in 0..(N - 1) :
                 (module.index[i * N + j + 1] = module.index[k * N + l + 1])
                    <=> (D(i, j) = D(k, l))

C9_Witness ==
    /\ IsBias /\ BiasH = 2 /\ BiasW = 3
    /\ module.index[1] = module.index[8]
    /\ module.index[2] # module.index[7]

\* C10: the unique deltas are exactly the rectangle -(h-1)..(h-1) by
\* -(w-1)..(w-1), so the table has exactly (2h-1)(2w-1) rows, and every row
\* is referenced by at least one entry of the index array.
C10_FullRectangle ==
    IsBias =>
        /\ ListSet(module.unique) =
              ((-(BiasH - 1))..(BiasH - 1)) \X ((-(BiasW - 1))..(BiasW - 1))
        /\ Len(module.unique) = (2 * BiasH - 1) * (2 * BiasW - 1)
        /\ Len(module.delta) = (2 * BiasH - 1) * (2 * BiasW - 1)
        /\ \A r \in 0..(Len(module.unique) - 1) :
              \E e \in 1..Len(module.index) : module.index[e] = r

C10_Witness ==
    /\ IsBias /\ BiasH = 2 /\ BiasW = 2
    /\ Len(module.unique) = 9 /\ Len(module.index) = 16
    /\ module.unique[1] = <<-1, -1>> /\ module.unique[9] = <<1, 1>>

----------------------------------------------------------------------------
(***************************************************************************)
(* Properties of the attention modules                                     *)
(***************************************************************************)
WindowForwards ==
    {"WindowMHA2d.forward", "WindowCrossMHA2d.forward", "OverlapWindowMHA2d.forward"}

Forwards == WindowForwards \cup {"MHA.forward", "CrossMHA.forward"}

\* C3: for every valid input shape (H and W multiples of the window extents)
\* and every window geometry, odd extents included, the forward call of
\* WindowMHA2d, WindowCrossMHA2d and OverlapWindowMHA2d completes and returns
\* a tensor of the input's shape.
C3_ShapePreserved ==
    result.op \in WindowForwards =>
        /\ Divides(result.inputs[1].shape, module.window_size)
        /\ result.status = "ok"
        /\ result.out.shape = result.inputs[1].shape

\* C4: constructing MHA or CrossMHA raises the precondition failure exactly
\* when no qkv_dim is given and embed_dim is not a multiple of num_heads;
\* after a successful construction the projected width seen by sliced_sdp is
\* qkv_dim * num_heads and its head-split assert never fails.
C4_DivisibilityCheck ==
    /\ result.op \in {"MHA.__init__", "CrossMHA.__init__"} =>
          LET embed_dim == result.args[1]
              num_heads == result.args[2]
              qkv_dim == result.args[3]
          IN IF qkv_dim = <<>> /\ embed_dim % num_heads # 0
             THEN result.status = "AssertionError" /\ module = NoModule
             ELSE /\ result.status = "ok"
                  /\ module.embed_dim = embed_dim /\ module.num_heads = num_heads
                  /\ module.qkv_dim =
                        IF qkv_dim = <<>> THEN embed_dim \div num_heads ELSE qkv_dim[1]
    /\ result.op \in {"MHA.forward", "CrossMHA.forward"} =>
          /\ result.at # "assert C % num_heads == 0"
          /\ \A c \in 1..Len(result.sdp) :
                /\ result.sdp[c].C = module.qkv_dim * module.num_heads
                /\ result.sdp[c].C % module.num_heads = 0

C4_Witness ==
    /\ result.op = "MHA.forward" /\ result.status = "ok"
    /\ module.embed_dim % module.num_heads # 0
    /\ Len(result.sdp) = 1

\* C5: CrossMHA.forward(q, kv) raises the shape-mismatch failure whenever
\* q.shape # kv.shape, before any projection or attention is computed; with
\* equal shapes the call goes on to the projections.
C5_ShapeMismatchRaisesFirst ==
    result.op = "CrossMHA.forward" =>
        IF result.inputs[1].shape # result.inputs[2].shape
        THEN /\ result.status = "AssertionError"
             /\ result.at = "assert q.shape == kv.shape"
             /\ result.steps = <<"assert q.shape == kv.shape">>
             /\ result.sdp = <<>>
        ELSE /\ result.at # "assert q.shape == kv.shape"
             /\ Len(result.steps) >= 2
             /\ result.steps[1] = "assert q.shape == kv.shape"
             /\ result.steps[2] = "q_proj"

C5_Witness ==
    /\ result.op = "CrossMHA.forward" /\ result.status = "AssertionError"
    /\ result.inputs[1].shape[1] = result.inputs[2].shape[1]
    /\ result.inputs[1].shape[3] = result.inputs[2].shape[3]
    /\ result.inputs[1].shape[3] = module.embed_dim
    /\ result.inputs[1].shape[2] # result.inputs[2].shape[2]

\* the number of windows of a (B, C, H, W) shape times its batch size
WindowedBatch(shape, window_size) ==
    shape[1] * (shape[3] \div window_size[1]) * (shape[4] \div window_size[2])

\* C6: in every sliced_sdp call the backends depend only on the batch
\* dimension B of q: above 65535 only MATH is enabled, up to 65535 the fused
\* backends and MATH are; MATH is enabled under both use_flash_attention
\* definitions; called from a windowed wrapper, B is batch times windows.
C6_BackendPolicy ==
    result.op \in Forwards =>
        /\ \A c \in 1..Len(result.sdp) :
              LET call == result.sdp[c]
              IN /\ call.use_flash = (call.B <= 65535)
                 /\ call.backends =
                       IF call.B > 65535 THEN {"MATH"}
                       ELSE {"FLASH_ATTENTION", "EFFICIENT_ATTENTION", "MATH"}
                 /\ "MATH" \in call.backends
        /\ (result.op \in {"MHA.forward", "CrossMHA.forward"} /\ result.status = "ok") =>
              Len(result.sdp) = 1 /\ result.sdp[1].B = result.inputs[1].shape[1]
        /\ (result.op \in {"WindowMHA2d.forward", "WindowCrossMHA2d.forward"}
               /\ result.status = "ok") =>
              /\ Len(result.sdp) = 1
              /\ result.sdp[1].B = WindowedBatch(result.inputs[1].shape, module.window_size)
        /\ (result.op = "OverlapWindowMHA2d.forward" /\ result.status = "ok") =>
              LET s == result.inputs[1].shape
              IN /\ Len(result.sdp) = 2
                 /\ result.sdp[1].B = WindowedBatch(s, module.window_size)
                 /\ result.sdp[2].B =
                       WindowedBatch(<<s[1], s[2], s[3] + 2 * module.pad_h,
                                       s[4] + 2 * module.pad_w>>, module.window_size)

C6_Witness ==
    /\ result.op = "WindowMHA2d.forward" /\ result.status = "ok"
    /\ ~sdpa_kernel_import
    /\ result.inputs[1].shape[1] = 65535
    /\ result.sdp[1].B > 65535
    /\ result.sdp[1].backends = {"MATH"}

\* the (b, y, x) coordinates of row-major position pos of a (B, C, H, W) shape
PosOf(shape, pos) ==
    <<((pos - 1) \div (shape[3] * shape[4])) + 1,
      (((pos - 1) % (shape[3] * shape[4])) \div shape[4]) + 1,
      ((pos - 1) % shape[4]) + 1>>

\* two positions lie in the same window of the same batch element
SameWindow(p, q, window_size) ==
    /\ p[1] = q[1]
    /\ (p[2] - 1) \div window_size[1] = (q[2] - 1) \div window_size[1]
    /\ (p[3] - 1) \div window_size[2] = (q[3] - 1) \div window_size[2]

\* two maps agree at every position outside the window of position p
AgreeOutsideWindowOf(y1, y2, p, window_size) ==
    \A b \in 1..y1.shape[1], y \in 1..y1.shape[3], c \in 1..y1.shape[4] :
        SameWindow(p, <<b, y, c>>, window_size) \/ y1.tok[b][y][c] = y2.tok[b][y][c]

\* C7: in WindowMHA2d and WindowCrossMHA2d, without a normalisation callable
\* or with a per-token one, changing the input at one position (of either
\* stream, for the cross variant) leaves the output unchanged at every
\* position outside that position's window: the output inside a window
\* depends only on the inputs inside the same (co-located) window of the same
\* batch element.
C7_WindowIsolation ==
    /\ (result.op = "WindowMHA2d.forward" /\ result.status = "ok" /\ ~result.out.meta) =>
          LET shape == result.inputs[1].shape
          IN \A pert \in 1..(shape[1] * shape[3] * shape[4]) :
                LET r == WindowMHA2d_forward(module, InputBCHW(shape, 0, pert),
                                              result.ln[1])
                IN /\ r.status = "ok"
                   /\ AgreeOutsideWindowOf(result.out, r.out, PosOf(shape, pert),
                                           module.window_size)
    /\ (result.op = "WindowCrossMHA2d.forward" /\ result.status = "ok"
           /\ ~result.out.meta) =>
          LET shape == result.inputs[1].shape
              P == shape[1] * shape[3] * shape[4]
          IN \A pert \in 1..(2 * P) :
                LET in == CrossMaps(shape, pert)
                    r == WindowCrossMHA2d_forward(module, in[1], in[2],
                                                   result.ln[1], result.ln[2])
                    pos == IF pert <= P THEN pert ELSE pert - P
                IN /\ r.status = "ok"
                   /\ AgreeOutsideWindowOf(result.out, r.out, PosOf(shape, pos),
                                           module.window_size)

C7_Witness ==
    /\ result.op = "WindowCrossMHA2d.forward" /\ result.status = "ok"
    /\ ~result.out.meta
    /\ module.window_size = <<1, 2>>
    /\ result.inputs[1].shape[1] = 2
    /\ result.inputs[1].shape[4] = 4
    /\ result.ln = <<TRUE, FALSE>>
    /\ module.num_heads = 2

\* C8: OverlapWindowMHA2d with window size (1,1) is a pointwise projection:
\* the padding is zero, both branches are partitioned into single-token
\* windows (one per position), and the output at every position is the
\* output projection of the sum of two identical branch values, each the
\* token's own value projection, so it depends on the input at that position
\* only.
C8_UnitWindowPointwise ==
    (result.op = "OverlapWindowMHA2d.forward" /\ module.window_size = <<1, 1>>) =>
        LET x == result.inputs[1]
            positions == x.shape[1] * x.shape[3] * x.shape[4]
            Own(t) == [h \in 1..module.num_heads |->
                         <<"head", h, <<"chunk", 2,
                            <<"qkv_proj",
                              IF result.ln[1] THEN <<"layer_norm", t>> ELSE t>>>>>>]
        IN /\ module.pad_h = 0 /\ module.pad_w = 0
           /\ result.status = "ok"
           /\ result.out.shape = x.shape
           /\ Len(result.sdp) = 2
           /\ \A c \in 1..2 : result.sdp[c].N = 1 /\ result.sdp[c].B = positions
           /\ ~result.out.meta =>
                 \A b \in 1..x.shape[1], y \in 1..x.shape[3], c \in 1..x.shape[4] :
                    result.out.tok[b][y][c] =
                       <<"head_proj", <<"add", <<"heads", Own(x.tok[b][y][c])>>,
                                               <<"heads", Own(x.tok[b][y][c])>>>>>>

C8_Witness ==
    /\ result.op = "OverlapWindowMHA2d.forward" /\ result.status = "ok"
    /\ module.window_size = <<1, 1>>
    /\ ~result.out.meta
    /\ result.inputs[1].shape = <<2, 2, 1, 2>>
    /\ module.num_heads = 2
    /\ result.ln = <<TRUE>>

----------------------------------------------------------------------------
(***************************************************************************)
(* The transform cache.                                                    *)
(***************************************************************************)
\* python == on two fps values: a Fraction, an int and a float compare by value
FpsEqual(a, b) ==
    LET num(f) == IF f.kind = "Fraction" THEN f.numerator ELSE f.value
        den(f) == IF f.kind = "Fraction" THEN f.denominator ELSE 1
    IN num(a) * den(b) = num(b) * den(a)

\* the data try_load_cache returned is what the save at `s` stored
IsSavedRecord(out, s) ==
    /\ out # NoData
    /\ out.transforms = s.transforms
    /\ out.mean_match_scores = s.mean_match_scores
    /\ FpsEqual(out.fps, s.fps)
    /\ out.max_fps = s.args.max_fps
    /\ out.resolution = s.args.resolution

\* C11: try_load_cache(path, args2) returns the record of the last
\* save_cache(path, ..., args) that no purge_cache(path) followed whenever
\* args2.max_fps, args2.resolution and args2.vf equal those of args, whatever
\* the value of vf; it returns None when one of the three differs, and None
\* when path was purged (or never saved).
C11_CacheRoundTrip ==
    cache_call.op = "try_load_cache" =>
        LET s == last_saved[cache_call.path]
            args2 == cache_call.args
        IN IF ~s.saved THEN cache_call.out = NoData
           ELSE IF /\ args2.max_fps = s.args.max_fps
                   /\ args2.resolution = s.args.resolution
                   /\ args2.vf = s.args.vf
                THEN IsSavedRecord(cache_call.out, s)
                ELSE cache_call.out = NoData

\* the part of C11 the code keeps: loads with an empty args2.vf
C11_HoldsWithoutFilter ==
    (cache_call.op = "try_load_cache" /\ ~Truthy(cache_call.args.vf)) =>
        LET s == last_saved[cache_call.path]
            args2 == cache_call.args
        IN IF ~s.saved THEN cache_call.out = NoData
           ELSE IF /\ args2.max_fps = s.args.max_fps
                   /\ args2.resolution = s.args.resolution
                   /\ ~Truthy(s.args.vf)
                THEN IsSavedRecord(cache_call.out, s)
                ELSE cache_call.out = NoData

\* what the code does once a filter string was saved: no load succeeds
C11_FilterNeverHits ==
    (cache_call.op = "try_load_cache" /\ last_saved[cache_call.path].saved
       /\ Truthy(last_saved[cache_call.path].args.vf)) => cache_call.out = NoData

\* a load with a filter string never succeeds either
C11_FilterArgNeverHits ==
    (cache_call.op = "try_load_cache" /\ Truthy(cache_call.args.vf)) =>
        cache_call.out = NoData

====
